---- MODULE Spec2Model ----
(***************************************************************************)
(* Notice-board backend (Express + Mongoose + socket.io).                  *)
(*                                                                         *)
(* State: the document store (users, notices with their views and          *)
(* acknowledged lists, comments, notifications), the wall clock read by    *)
(* Date.now, the HTTP response of the request handled last, the socket.io  *)
(* events that request emitted, the connected sockets with their rooms,    *)
(* and the locals of the requests that are between two awaits.             *)
(*                                                                         *)
(* The specifications share the handlers:                                  *)
(*   Spec          the notice routes as server.js mounts them: every route *)
(*                 behind the middleware chain its router.<verb>() call    *)
(*                 names, on a store that starts without notices;          *)
(*   SpecList      the GET /notices handler applied to a store drawn from  *)
(*                 the notice schema, with req.user as an upstream         *)
(*                 middleware would set it (notices.js:12-13);             *)
(*   SpecRead      the GET /notices/:id handler, likewise                  *)
(*                 (notices.js:95-96);                                     *)
(*   SpecThread    the comment routes and DELETE /notices/:id on a store   *)
(*                 that holds two seeded notices;                          *)
(*   SpecInactive  the same routes after accounts were deactivated;        *)
(*   SpecInbox     the notification routes;                                *)
(*   SpecSocket    comment creation while sockets connect and join rooms;  *)
(*   SpecRace      acknowledgments and views with check and save as        *)
(*                 separate steps;                                         *)
(*   SpecInterleave  comment creation, notice creation and notice deletion *)
(*                 with every awaited store operation a separate step.     *)
(*                                                                         *)
(* In all but the last two, one step is one whole request.                 *)
(*                                                                         *)
(* Not modelled: pagination and ordering of the listing (the result is the *)
(* set Notice.find(query) selects, which the pages partition), populate(), *)
(* the notice fields no modelled handler reads (priority, scheduledDate,   *)
(* attachments, isPinned, expiresAt), and readAt of a notification.        *)
(***************************************************************************)
EXTENDS Integers, Sequences, FiniteSets, TLC

VARIABLES
    env,            \* process.env.NODE_ENV
    users,          \* User collection: _id -> document
    notices,        \* Notice collection: _id -> document
    nextNoticeId,   \* the _id the next new Notice gets
    notifications,  \* Notification collection, in insertion order
    now,            \* Date.now()
    resp,           \* the response in flight, with the request it answers
    comments,       \* Comment collection: _id -> document
    nextCommentId,  \* the _id the next new Comment gets
    emitted,        \* socket.io events the request in flight has emitted
    rooms,          \* connected sockets: socket id -> the rooms it joined
    pending         \* requests in progress between two awaits: their locals

vars == <<env, users, notices, nextNoticeId, notifications, now, resp,
          comments, nextCommentId, emitted, rooms, pending>>

----------------------------------------------------------------------------
(* Bounds *)

\* notices POST /notices may create in one behaviour of Spec
MaxNotices == 1
\* documents in the store SpecList and SpecRead start from
MaxDocs == 1
\* last value of the wall clock
MaxTime == 1
\* comments POST /comments may create in one behaviour of SpecThread
MaxComments == 2
\* requests one behaviour of SpecRace or SpecInterleave starts
MaxRequests == 2

----------------------------------------------------------------------------
(* Values *)

\* JS null (also the schema default of targetYear)
Null == "null"
\* JS undefined: a query parameter or body field the request does not carry
Absent == "absent"
\* req.user when no middleware has set it (undefined)
NoUser == [id |-> "none", role |-> "none", department |-> "none", year |-> Absent,
           isActive |-> FALSE]
\* an empty or missing string of text
NoText == <<>>

AllDepartments == "All Departments"

Departments == {"CSE", "ECE"}

NoticeDepartments == Departments \cup {AllDepartments}

Years == {"2nd Year", "3rd Year"}

Statuses == {"published", "scheduled", "draft"}

\* Text is a sequence of characters, so that matching works on characters.
TextExam == <<"E", "x", "a", "m">>

TextFee == <<"f", "e", "e">>

TextHall == <<"H", "a", "l", "l">>

\* String.prototype.toLowerCase on the characters in use
LowerChar(c) ==
    CASE c = "E" -> "e"
      [] c = "X" -> "x"
      [] c = "A" -> "a"
      [] c = "M" -> "m"
      [] c = "F" -> "f"
      [] c = "H" -> "h"
      [] c = "L" -> "l"
      [] OTHER -> c

\* { $regex: term, $options: 'i' } for a term without metacharacters: the
\* term occurs in the text, letter case ignored
RegexMatchI(text, term) ==
    \E i \in 0..(Len(text) - Len(term)) :
        \A j \in 1..Len(term) : LowerChar(text[i + j]) = LowerChar(term[j])

----------------------------------------------------------------------------
(* Users *)

UserIds == {"A", "F", "S1", "S2", "S3"}

\* The users of the store: an admin, a faculty member and students as the
\* seeder creates them, one student deactivated through PUT /users/:id.
SeedUsers ==
    [u \in UserIds |->
        CASE u = "A"  -> [id |-> "A", role |-> "admin", department |-> "Administration",
                          year |-> Absent, isActive |-> TRUE]
          [] u = "F"  -> [id |-> "F", role |-> "faculty", department |-> "CSE",
                          year |-> Absent, isActive |-> TRUE]
          [] u = "S1" -> [id |-> "S1", role |-> "student", department |-> "CSE",
                          year |-> "3rd Year", isActive |-> TRUE]
          [] u = "S2" -> [id |-> "S2", role |-> "student", department |-> "ECE",
                          year |-> "2nd Year", isActive |-> TRUE]
          [] OTHER    -> [id |-> "S3", role |-> "student", department |-> "CSE",
                          year |-> "3rd Year", isActive |-> FALSE]]

----------------------------------------------------------------------------
(* GET /notices: query construction and Notice.find *)

\* No condition on the department field of the query
NoCond == [cond |-> FALSE, in |-> {}]

\* { department: { $in: ds } }
In(ds) == [cond |-> TRUE, in |-> ds]

\* department && department !== 'all'   (and likewise for category)
Given(p) == p \notin {Absent, "", "all"}

\* Mutant: only students are narrowed to their department
QueryDepartment_StudentsOnly(reqUser, q) ==
    IF Given(q.department)
    THEN In({q.department, AllDepartments})
    ELSE IF reqUser # NoUser /\ reqUser.role = "student"
         THEN In({reqUser.department, AllDepartments})
         ELSE NoCond

\* Mutant: the viewer's department is tested before the department parameter
QueryDepartment_ViewerFirst(reqUser, q) ==
    IF reqUser # NoUser /\ reqUser.role \in {"student", "faculty"}
    THEN In({reqUser.department, AllDepartments})
    ELSE IF Given(q.department)
         THEN In({q.department, AllDepartments})
         ELSE NoCond

\* query.department
QueryDepartment(reqUser, q) ==
    IF Given(q.department)
    THEN In({q.department, AllDepartments})
    ELSE IF reqUser # NoUser /\ reqUser.role \in {"student", "faculty"}
         THEN In({reqUser.department, AllDepartments})
         ELSE NoCond

\* Mutant: the target-year clause admits only the viewer's own year
QueryOr_OwnYearOnly(reqUser, q) ==
    IF reqUser # NoUser /\ reqUser.role = "student"
       /\ reqUser.year \notin {Absent, Null, ""}
    THEN [kind |-> "year", years |-> {reqUser.year}]
    ELSE IF q.search # NoText
         THEN [kind |-> "search", term |-> q.search]
         ELSE [kind |-> "none"]

\* query.$or: the search clauses, then replaced by the target-year clause
QueryOr(reqUser, q) ==
    LET afterSearch ==
            IF q.search # NoText
            THEN [kind |-> "search", term |-> q.search]
            ELSE [kind |-> "none"]
    IN  IF reqUser # NoUser /\ reqUser.role = "student"
           /\ reqUser.year \notin {Absent, Null, ""}
        THEN [kind |-> "year", years |-> {Null, "", reqUser.year}]
        ELSE afterSearch

\* Mutant: the base predicate is lost when a status is requested
ListQuery_ArchivedWithStatus(reqUser, q) ==
    [ isArchived |-> q.status \notin {Absent, ""},
      category   |-> IF Given(q.category) THEN q.category ELSE Absent,
      department |-> QueryDepartment(reqUser, q),
      status     |-> IF q.status \notin {Absent, ""} THEN q.status ELSE "published",
      or         |-> QueryOr(reqUser, q) ]

\* The query object the handler builds
ListQuery(reqUser, q) ==
    [ isArchived |-> FALSE,
      category   |-> IF Given(q.category) THEN q.category ELSE Absent,
      department |-> QueryDepartment(reqUser, q),
      status     |-> IF q.status \notin {Absent, ""} THEN q.status ELSE "published",
      or         |-> QueryOr(reqUser, q) ]

\* A document satisfies the query (every field condition, and $or if set)
Matches(doc, query) ==
    /\ doc.isArchived = query.isArchived
    /\ query.category = Absent \/ doc.category = query.category
    /\ query.department.cond => doc.department \in query.department.in
    /\ doc.status = query.status
    /\ CASE query.or.kind = "search" ->
                \/ RegexMatchI(doc.title, query.or.term)
                \/ RegexMatchI(doc.content, query.or.term)
         [] query.or.kind = "year" -> doc.targetYear \in query.or.years
         [] OTHER -> TRUE

\* Notice.find(query): the ids of the selected notices
Find(query) == {n \in DOMAIN notices : Matches(notices[n], query)}

\* router.get('/')
GetNotices(token, reqUser, q) ==
    /\ resp' = [op |-> "list", status |-> 200, token |-> token, viewer |-> reqUser,
                query |-> q, data |-> Find(ListQuery(reqUser, q))]
    /\ UNCHANGED <<rooms, pending, env, users, notices, nextNoticeId, notifications, now,
                     comments, nextCommentId, emitted>>

----------------------------------------------------------------------------
(* SpecList: the listing handler over a store drawn from the schema *)

\* Query strings of GET /notices
ListParams ==
    [ category   : {Absent, "exams"},
      department : {Absent, "all", "ECE"},
      status     : {Absent, "draft"},
      search     : {NoText, <<"E", "X", "A", "M">>} ]

\* req.user as an authenticating middleware sets it
Viewers ==
    { NoUser,
      SeedUsers["A"], SeedUsers["F"], SeedUsers["S1"],
      [id |-> "S4", role |-> "student", department |-> "CSE", year |-> Absent,
       isActive |-> TRUE] }

\* What a notice says: category, title and content
Wordings ==
    { [category |-> "academic", title |-> TextExam, content |-> TextFee],
      [category |-> "exams",    title |-> TextHall, content |-> TextExam],
      [category |-> "exams",    title |-> TextHall, content |-> TextFee] }

\* A notice document
Doc(w, dept, ty, author, status, archived) ==
    [ title |-> w.title, content |-> w.content, category |-> w.category,
      department |-> dept, targetYear |-> ty, author |-> author,
      status |-> status, isArchived |-> archived,
      views |-> <<>>, acknowledged |-> <<>> ]

\* Notice documents the schema admits (views and acknowledged empty)
ListDocs ==
    { Doc(w, d, ty, "F", st, ar) :
        w \in Wordings, d \in NoticeDepartments, ty \in {Null, ""} \cup Years,
        st \in {"published", "draft"}, ar \in BOOLEAN }

\* No response in flight: the server is idle
NoResp == [op |-> "none"]

Idle == resp = NoResp

\* res.json(...) reaches the client
Deliver ==
    /\ ~Idle
    /\ resp' = NoResp
    /\ emitted' = <<>>
    /\ UNCHANGED <<rooms, pending, env, users, notices, nextNoticeId, notifications, now,
                   comments, nextCommentId>>

\* The bearer credential of a user: jwt.verify maps it to the user's _id
TokenOf(u) == IF u = NoUser THEN Absent ELSE u.id

InitList ==
    /\ env = "production"
    /\ users = SeedUsers
    /\ notices \in [1..MaxDocs -> ListDocs]
    /\ nextNoticeId = MaxDocs + 1
    /\ notifications = <<>>
    /\ now = 0
    /\ comments = <<>>
    /\ nextCommentId = 1
    /\ emitted = <<>>
    /\ rooms = <<>>
    /\ pending = <<>>
    /\ resp = NoResp

ListRequest ==
    Idle /\ \E v \in Viewers, q \in ListParams : GetNotices(TokenOf(v), v, q)

NextList == ListRequest \/ Deliver

SpecList == InitList /\ [][NextList]_vars

----------------------------------------------------------------------------
(* GET /notices/:id *)

\* The entries of a views or acknowledged list that name the user
EntriesOf(list, uid) == SelectSeq(list, LAMBDA e : e.user = uid)

\* list.some(e => e.user.toString() === req.user._id.toString())
Has(list, uid) == \E i \in 1..Len(list) : list[i].user = uid

\* Mutant: the view is pushed on every read
GetNotice_PushAlways(token, reqUser, id) ==
    IF id \notin DOMAIN notices
    THEN /\ resp' = [op |-> "read", status |-> 404, token |-> token,
                     viewer |-> reqUser, id |-> id]
         /\ UNCHANGED <<rooms, pending, env, users, notices, nextNoticeId, notifications, now,
                     comments, nextCommentId, emitted>>
    ELSE /\ notices' =
                IF reqUser # NoUser
                THEN [notices EXCEPT ![id].views =
                          Append(@, [user |-> reqUser.id, viewedAt |-> now])]
                ELSE notices
         /\ resp' = [op |-> "read", status |-> 200, token |-> token,
                     viewer |-> reqUser, id |-> id, data |-> notices'[id]]
         /\ UNCHANGED <<rooms, pending, env, users, nextNoticeId, notifications, now,
                     comments, nextCommentId, emitted>>

\* router.get('/:id')
GetNotice(token, reqUser, id) ==
    IF id \notin DOMAIN notices
    THEN /\ resp' = [op |-> "read", status |-> 404, token |-> token,
                     viewer |-> reqUser, id |-> id]
         /\ UNCHANGED <<rooms, pending, env, users, notices, nextNoticeId, notifications, now,
                     comments, nextCommentId, emitted>>
    ELSE /\ notices' =
                IF reqUser # NoUser /\ ~Has(notices[id].views, reqUser.id)
                THEN [notices EXCEPT ![id].views =
                          Append(@, [user |-> reqUser.id, viewedAt |-> now])]
                ELSE notices
         /\ resp' = [op |-> "read", status |-> 200, token |-> token,
                     viewer |-> reqUser, id |-> id, data |-> notices'[id]]
         /\ UNCHANGED <<rooms, pending, env, users, nextNoticeId, notifications, now,
                     comments, nextCommentId, emitted>>

\* Date.now() moves on between requests
Tick ==
    /\ Idle
    /\ now < MaxTime
    /\ now' = now + 1
    /\ UNCHANGED <<rooms, pending, env, users, notices, nextNoticeId, notifications, resp,
                 comments, nextCommentId, emitted>>

----------------------------------------------------------------------------
(* SpecRead: the single-notice handler over a store drawn from the schema *)

ReadViewers == {NoUser, SeedUsers["F"], SeedUsers["S1"]}

ReadDocs ==
    { Doc([category |-> "academic", title |-> TextExam, content |-> TextFee],
          d, ty, "A", "published", ar) :
        d \in Departments, ty \in {Null, "2nd Year"}, ar \in BOOLEAN }

InitRead ==
    /\ env = "production"
    /\ users = SeedUsers
    /\ notices \in [1..MaxDocs -> ReadDocs]
    /\ nextNoticeId = MaxDocs + 1
    /\ notifications = <<>>
    /\ now = 0
    /\ comments = <<>>
    /\ nextCommentId = 1
    /\ emitted = <<>>
    /\ rooms = <<>>
    /\ pending = <<>>
    /\ resp = NoResp

ReadRequest ==
    Idle /\ \E v \in ReadViewers, id \in 1..(MaxDocs + 1) :
               GetNotice(TokenOf(v), v, id)

NextRead == ReadRequest \/ Tick \/ Deliver

SpecRead == InitRead /\ [][NextRead]_vars

----------------------------------------------------------------------------
(* middleware/auth.js *)

\* jwt.verify(token, secret) and User.findById(decoded.userId): the user the
\* credential names, NoUser when there is no token, verify throws or no such
\* user exists
ResolveToken(token) == IF token \in DOMAIN users THEN users[token] ELSE NoUser

\* authenticate: req.user, or NoUser when it answers 401
Authenticate(token) ==
    LET user == ResolveToken(token)
    IN  IF user = NoUser \/ ~user.isActive THEN NoUser ELSE user

----------------------------------------------------------------------------
(* POST /notices *)

DevAdminEmail == "dev-admin@local"

\* The order in which User.find returns the users
UserOrder == <<"A", "F", "S1", "S2", "S3", DevAdminEmail>>

\* Mutant: the active flag is not part of the target query
TargetUsers_AnyActivity(us, department) ==
    SelectSeq(UserOrder,
              LAMBDA u : /\ u \in DOMAIN us
                         /\ us[u].role = "student"
                         /\ department = AllDepartments
                               \/ us[u].department = department)

\* User.find({ role: 'student', [department,] isActive: true })
TargetUsers(us, department) ==
    SelectSeq(UserOrder,
              LAMBDA u : /\ u \in DOMAIN us
                         /\ us[u].role = "student"
                         /\ us[u].isActive
                         /\ department = AllDepartments
                               \/ us[u].department = department)

\* targetUsers.map(user => ({ user, type: 'new_notice', relatedNotice }))
NewNoticeNotifications(targets, noticeId) ==
    [i \in 1..Len(targets) |->
        [user |-> targets[i], type |-> "new_notice", relatedNotice |-> noticeId,
         relatedComment |-> Null, isRead |-> FALSE]]

\* new Notice({...}) with the schema defaults applied
NewNotice(body, authorId) ==
    [ title |-> body.wording.title, content |-> body.wording.content,
      category |-> body.wording.category, department |-> body.department,
      targetYear |-> IF body.targetYear = Absent THEN Null ELSE body.targetYear,
      author |-> authorId,
      status |-> IF body.status = Absent THEN "published" ELSE body.status,
      isArchived |-> FALSE, views |-> <<>>, acknowledged |-> <<>> ]

\* notice.save() passes validation: required fields present, status in the enum
ValidNotice(body) ==
    /\ body.department # Absent
    /\ body.status \in Statuses \cup {Absent}

\* io.emit(event): to every connected socket
Broadcast == "all"

Receivers_All(room) == DOMAIN rooms

\* The sockets an emit reaches: every connected socket for io.emit, the
\* sockets that joined the room for io.to(room).emit
Receivers(room) ==
    IF room = Broadcast THEN DOMAIN rooms
    ELSE {c \in DOMAIN rooms : room \in rooms[c].joined}

\* io.emit / io.to(room).emit: the event, with the sockets it is sent to
Emit(event, room) == [event |-> event, room |-> room, to |-> Receivers(room)]

\* socketService.notifyNewNotice
NotifyNewNotice == <<Emit("notice-update", Broadcast), Emit("new-notice", Broadcast)>>

IsPublished_OrDraft(body) == body.status \in {"published", "draft"}

\* if (status === 'published'), status being req.body.status
IsPublished(body) == body.status = "published"

\* router.post('/'); insertFails: Notification.insertMany rejects
CreateNotice(token, body, insertFails) ==
    LET byToken  == ResolveToken(token)
        fallback == byToken = NoUser /\ env # "production"
        devEmail == IF body.devAuthorEmail = Absent THEN DevAdminEmail
                    ELSE body.devAuthorEmail
        devUser  == [id |-> devEmail,
                     role |-> IF body.devAuthorRole = Absent THEN "admin"
                              ELSE body.devAuthorRole,
                     department |-> IF body.department = Absent THEN AllDepartments
                                    ELSE body.department,
                     year |-> Absent, isActive |-> TRUE]
        users1   == IF fallback /\ devEmail \notin DOMAIN users
                    THEN [u \in DOMAIN users \cup {devEmail} |->
                             IF u = devEmail THEN devUser ELSE users[u]]
                    ELSE users
        author   == IF byToken # NoUser THEN byToken
                    ELSE IF fallback THEN users1[devEmail] ELSE NoUser
        status   == IF author = NoUser THEN 401
                    ELSE IF author.role \notin {"admin", "faculty"} THEN 403
                    ELSE IF ~ValidNotice(body) THEN 500
                    ELSE 201
        targets  == TargetUsers(users1, body.department)
        \* await Notification.insertMany(notifications) throws; an empty
        \* array is not sent to the store
        thrown   == IsPublished(body) /\ insertFails /\ targets # <<>>
    IN  /\ status = 201 => nextNoticeId <= MaxNotices
        /\ users' = users1
        /\ IF status = 201
           THEN /\ notices' = [n \in DOMAIN notices \cup {nextNoticeId} |->
                                 IF n = nextNoticeId THEN NewNotice(body, author.id)
                                 ELSE notices[n]]
                /\ nextNoticeId' = nextNoticeId + 1
                /\ notifications' =
                      IF IsPublished(body) /\ ~thrown
                      THEN notifications \o NewNoticeNotifications(targets, nextNoticeId)
                      ELSE notifications
                /\ emitted' = IF IsPublished(body) /\ ~thrown THEN NotifyNewNotice
                              ELSE <<>>
                \* catch (error): res.status(500)
                /\ resp' = [op |-> "create", status |-> IF thrown THEN 500 ELSE 201,
                            token |-> token, body |-> body, actor |-> author.id,
                            id |-> nextNoticeId, insertFailed |-> thrown]
           ELSE /\ UNCHANGED <<notices, nextNoticeId, notifications, emitted>>
                /\ resp' = [op |-> "create", status |-> status, token |-> token,
                            body |-> body, actor |-> author.id]
        /\ UNCHANGED <<rooms, pending, env, now, comments, nextCommentId>>

----------------------------------------------------------------------------
(* POST /notices/:id/acknowledge *)

\* Mutant: a repeated acknowledgment is rejected
Acknowledge_RejectRepeat(token, reqUser, id) ==
    IF id \notin DOMAIN notices
    THEN /\ resp' = [op |-> "ack", status |-> 404, token |-> token,
                     viewer |-> reqUser, id |-> id]
         /\ UNCHANGED <<rooms, pending, env, users, notices, nextNoticeId, notifications, now,
                     comments, nextCommentId, emitted>>
    ELSE IF Has(notices[id].acknowledged, reqUser.id)
    THEN /\ resp' = [op |-> "ack", status |-> 400, token |-> token,
                     viewer |-> reqUser, id |-> id]
         /\ UNCHANGED <<rooms, pending, env, users, notices, nextNoticeId, notifications, now,
                     comments, nextCommentId, emitted>>
    ELSE /\ notices' = [notices EXCEPT ![id].acknowledged =
                          Append(@, [user |-> reqUser.id, acknowledgedAt |-> now])]
         /\ resp' = [op |-> "ack", status |-> 200, token |-> token,
                     viewer |-> reqUser, id |-> id,
                     acknowledgedCount |-> Len(notices'[id].acknowledged)]
         /\ UNCHANGED <<rooms, pending, env, users, nextNoticeId, notifications, now,
                     comments, nextCommentId, emitted>>

\* The handler of router.post('/:id/acknowledge'), run after authenticate
Acknowledge(token, reqUser, id) ==
    IF id \notin DOMAIN notices
    THEN /\ resp' = [op |-> "ack", status |-> 404, token |-> token,
                     viewer |-> reqUser, id |-> id]
         /\ UNCHANGED <<rooms, pending, env, users, notices, nextNoticeId, notifications, now,
                     comments, nextCommentId, emitted>>
    ELSE /\ notices' =
                IF ~Has(notices[id].acknowledged, reqUser.id)
                THEN [notices EXCEPT ![id].acknowledged =
                          Append(@, [user |-> reqUser.id, acknowledgedAt |-> now])]
                ELSE notices
         /\ resp' = [op |-> "ack", status |-> 200, token |-> token,
                     viewer |-> reqUser, id |-> id,
                     acknowledgedCount |-> Len(notices'[id].acknowledged)]
         /\ UNCHANGED <<rooms, pending, env, users, nextNoticeId, notifications, now,
                     comments, nextCommentId, emitted>>

\* authenticate answers 401 and the handler does not run
Unauthorized(op, token) ==
    /\ resp' = [op |-> op, status |-> 401, token |-> token, viewer |-> NoUser]
    /\ UNCHANGED <<rooms, pending, env, users, notices, nextNoticeId, notifications, now,
                     comments, nextCommentId, emitted>>

----------------------------------------------------------------------------
(* POST /comments *)

\* The _id no document has: a null or missing reference to a notice or comment
NoId == 0

DevCommenterEmail == "dev-commenter@local"

\* new User(baseUser) of the development fallback, the _dev* fields of the
\* body being absent
DevCommenter ==
    [id |-> DevCommenterEmail, role |-> "student", department |-> "General",
     year |-> "2025", isActive |-> TRUE]

\* The User collection after the handler resolved its actor: the fallback
\* saves the development user when the token names nobody and none exists yet
CommentUsers(token) ==
    IF /\ ResolveToken(token) = NoUser
       /\ env # "production"
       /\ DevCommenterEmail \notin DOMAIN users
    THEN [u \in DOMAIN users \cup {DevCommenterEmail} |->
             IF u = DevCommenterEmail THEN DevCommenter ELSE users[u]]
    ELSE users

\* authorUser: by token (jwt.verify, User.findById), else the development
\* user outside production, else null
CommentActor(token) ==
    IF ResolveToken(token) # NoUser THEN ResolveToken(token)
    ELSE IF env # "production" THEN CommentUsers(token)[DevCommenterEmail]
    ELSE NoUser

\* !String(content).trim()
IsBlank(text) == \A i \in 1..Len(text) : text[i] = " "

\* new Comment({ notice, author, content }): parentComment, replies, isEdited
\* and editedAt take the schema defaults
NewComment(body, authorId) ==
    [notice |-> body.noticeId, author |-> authorId, content |-> body.content,
     parentComment |-> NoId, replies |-> <<>>, isEdited |-> FALSE,
     editedAt |-> Null]

\* new Notification({ user, type: 'comment', relatedNotice, relatedComment })
CommentNotification(userId, noticeId, commentId) ==
    [user |-> userId, type |-> "comment", relatedNotice |-> noticeId,
     relatedComment |-> commentId, isRead |-> FALSE]

\* The room `user-${id}` a socket joins through 'join-room'
UserRoom(userId) == userId

NotifiesNoticeAuthor_Always(us, noticeAuthor, actorId) == noticeAuthor \in DOMAIN us

\* notice.author && notice.author._id && notice.author._id !== authorUser._id,
\* notice.author being populated from the User collection
NotifiesNoticeAuthor(us, noticeAuthor, actorId) ==
    noticeAuthor \in DOMAIN us /\ noticeAuthor # actorId

ReplyStatus_Surfaced(late, attachThrown) == IF attachThrown THEN 500 ELSE late

\* catch (attachErr): logged, the request goes on to its side effects and
\* its 201
ReplyStatus(late, attachThrown) == late

\* router.post('/'); attachFails: parentComment.save() rejects
CreateComment(token, body, attachFails) ==
    LET early  == IF body.noticeId = NoId THEN 400
                  ELSE IF IsBlank(body.content) THEN 400
                  ELSE IF body.noticeId \notin DOMAIN notices THEN 404
                  ELSE IF CommentActor(token) = NoUser THEN 401
                  ELSE 0
        actor  == CommentActor(token)
        users1 == CommentUsers(token)
        id     == nextCommentId
        comment == NewComment(body, actor.id)
        \* await comment.save()
        saved  == [c \in DOMAIN comments \cup {id} |->
                      IF c = id THEN comment ELSE comments[c]]
        parentId == body.parentCommentId
        late   == IF parentId = NoId THEN 201
                  ELSE IF parentId \notin DOMAIN saved THEN 404
                  ELSE IF saved[parentId].notice # body.noticeId THEN 400
                  ELSE 201
        \* parentComment.replies.push(comment._id); parentComment.save()
        attachThrown == parentId # NoId /\ late = 201 /\ attachFails
        attached == IF parentId # NoId /\ ~attachThrown
                    THEN [saved EXCEPT ![parentId].replies = Append(@, id)]
                    ELSE saved
        status == ReplyStatus(late, attachThrown)
        noticeAuthor == notices[body.noticeId].author
        toNoticeAuthor == NotifiesNoticeAuthor(users1, noticeAuthor, actor.id)
        \* if (comment.parentComment): the field of the comment just saved
        replyTo == comment.parentComment
        toParentAuthor ==
            /\ replyTo # NoId
            /\ replyTo \in DOMAIN attached
            /\ attached[replyTo].author \in DOMAIN users1
            /\ attached[replyTo].author # actor.id
    IN  IF early # 0
        THEN /\ users' = IF early = 401 THEN users1 ELSE users
             /\ resp' = [op |-> "comment", status |-> early, token |-> token,
                         body |-> body]
             /\ UNCHANGED <<rooms, pending, env, notices, nextNoticeId, notifications, now,
                            comments, nextCommentId, emitted>>
        ELSE /\ nextCommentId <= MaxComments
             /\ users' = users1
             /\ nextCommentId' = nextCommentId + 1
             /\ resp' = [op |-> "comment", status |-> status, token |-> token,
                         body |-> body, actor |-> actor.id, id |-> id,
                         attachFailed |-> attachThrown]
             /\ IF status # 201
                THEN /\ comments' = saved
                     /\ UNCHANGED <<notifications, emitted>>
                ELSE /\ comments' = attached
                     /\ notifications' =
                           notifications
                           \o (IF toNoticeAuthor
                               THEN <<CommentNotification(noticeAuthor,
                                                          body.noticeId, id)>>
                               ELSE <<>>)
                           \o (IF toParentAuthor
                               THEN <<CommentNotification(attached[replyTo].author,
                                                          body.noticeId, id)>>
                               ELSE <<>>)
                     /\ emitted' =
                           (IF toNoticeAuthor
                            THEN <<Emit("new-comment", UserRoom(noticeAuthor))>>
                            ELSE <<>>)
                           \o (IF toParentAuthor
                               THEN <<Emit("new-comment",
                                           UserRoom(attached[replyTo].author))>>
                               ELSE <<>>)
             /\ UNCHANGED <<rooms, pending, env, notices, nextNoticeId, now>>

----------------------------------------------------------------------------
(* PUT /comments/:id and DELETE /comments/:id *)

CanModifyComment_AnyActor(actor, comment) == actor # NoUser

\* isAdmin || isAuthor, with authorUser?.role and authorUser?._id
CanModifyComment(actor, comment) ==
    \/ actor.role = "admin"
    \/ actor # NoUser /\ comment.author = actor.id

\* router.put('/:id')
UpdateComment(token, id, body) ==
    IF id \notin DOMAIN comments
    THEN /\ resp' = [op |-> "editComment", status |-> 404, token |-> token,
                     id |-> id]
         /\ UNCHANGED <<rooms, pending, env, users, notices, nextNoticeId, notifications, now,
                        comments, nextCommentId, emitted>>
    ELSE LET actor == CommentActor(token)
         IN  /\ users' = CommentUsers(token)
             /\ IF ~CanModifyComment(actor, comments[id])
                THEN /\ resp' = [op |-> "editComment", status |-> 403,
                                 token |-> token, id |-> id, actor |-> actor.id]
                     /\ UNCHANGED <<comments, emitted>>
                ELSE /\ comments' = [comments EXCEPT
                                        ![id].content = body.content,
                                        ![id].isEdited = TRUE,
                                        ![id].editedAt = now]
                     \* io.emit('comment-edited', comment)
                     /\ emitted' = <<Emit("comment-edited", Broadcast)>>
                     /\ resp' = [op |-> "editComment", status |-> 200,
                                 token |-> token, id |-> id, actor |-> actor.id]
             /\ UNCHANGED <<rooms, pending, env, notices, nextNoticeId, notifications, now,
                            nextCommentId>>

\* The Comment collection without the documents of the ids in gone
WithoutComments(cs, gone) == [c \in DOMAIN cs \ gone |-> cs[c]]

\* router.delete('/:id')
DeleteComment(token, id) ==
    IF id \notin DOMAIN comments
    THEN /\ resp' = [op |-> "deleteComment", status |-> 404, token |-> token,
                     id |-> id]
         /\ UNCHANGED <<rooms, pending, env, users, notices, nextNoticeId, notifications, now,
                        comments, nextCommentId, emitted>>
    ELSE LET actor   == CommentActor(token)
             comment == comments[id]
             \* Comment.deleteMany({ parentComment: comment._id })
             replies == {c \in DOMAIN comments : comments[c].parentComment = id}
             \* parentComment.replies.filter(replyId => replyId !== comment._id)
             detached ==
                 IF comment.parentComment \in DOMAIN comments
                 THEN [comments EXCEPT ![comment.parentComment].replies =
                          SelectSeq(@, LAMBDA r : r # id)]
                 ELSE comments
         IN  /\ users' = CommentUsers(token)
             /\ IF ~CanModifyComment(actor, comment)
                THEN /\ resp' = [op |-> "deleteComment", status |-> 403,
                                 token |-> token, id |-> id, actor |-> actor.id]
                     /\ UNCHANGED <<comments, emitted>>
                ELSE /\ comments' =
                           IF comment.parentComment = NoId
                           THEN WithoutComments(comments, replies \cup {id})
                           ELSE WithoutComments(detached, {id})
                     \* io.emit('comment-deleted', comment._id)
                     /\ emitted' = <<Emit("comment-deleted", Broadcast)>>
                     /\ resp' = [op |-> "deleteComment", status |-> 200,
                                 token |-> token, id |-> id, actor |-> actor.id]
             /\ UNCHANGED <<rooms, pending, env, notices, nextNoticeId, notifications, now,
                            nextCommentId>>

----------------------------------------------------------------------------
(* PUT /notices/:id and DELETE /notices/:id *)

\* new User({ name, email, role: req.body._devAuthorRole || 'admin',
\* isActive: true }) of the development fallback of the update
DevEditor(body) ==
    [id |-> DevAdminEmail,
     role |-> IF body.devAuthorRole = Absent THEN "admin" ELSE body.devAuthorRole,
     department |-> Absent, year |-> Absent, isActive |-> TRUE]

\* The User collection after the update resolved its acting user
EditorUsers(token, body) ==
    IF /\ ResolveToken(token) = NoUser
       /\ env # "production"
       /\ DevAdminEmail \notin DOMAIN users
    THEN [u \in DOMAIN users \cup {DevAdminEmail} |->
             IF u = DevAdminEmail THEN DevEditor(body) ELSE users[u]]
    ELSE users

\* actingUser: by token, else the development user outside production
Editor(token, body) ==
    IF ResolveToken(token) # NoUser THEN ResolveToken(token)
    ELSE IF env # "production" THEN EditorUsers(token, body)[DevAdminEmail]
    ELSE NoUser

CanModifyNotice_AnyStaff(actor, notice) == actor.role \in {"admin", "faculty"}

\* notice.author === actor._id || actor.role === 'admin'
CanModifyNotice(actor, notice) ==
    notice.author = actor.id \/ actor.role = "admin"

\* x = req.body.x || notice.x
OrElse(given, kept) == IF given = Absent THEN kept ELSE given

\* socketService.notifyUpdatedNotice, socketService.notifyDeletedNotice
NotifyNoticeUpdate == <<Emit("notice-update", Broadcast)>>

\* router.put('/:id')
UpdateNotice(token, id, body) ==
    IF id \notin DOMAIN notices
    THEN /\ resp' = [op |-> "update", status |-> 404, token |-> token, id |-> id]
         /\ UNCHANGED <<rooms, pending, env, users, notices, nextNoticeId, notifications, now,
                        comments, nextCommentId, emitted>>
    ELSE LET actor  == Editor(token, body)
             status == IF actor = NoUser THEN 401
                       ELSE IF ~CanModifyNotice(actor, notices[id]) THEN 403
                       ELSE 200
         IN  /\ users' = EditorUsers(token, body)
             /\ resp' = [op |-> "update", status |-> status, token |-> token,
                         id |-> id, actor |-> actor.id]
             /\ IF status = 200
                THEN /\ notices' = [notices EXCEPT
                           ![id].department = OrElse(body.department, @),
                           ![id].targetYear = OrElse(body.targetYear, @),
                           ![id].status = OrElse(body.status, @)]
                     /\ emitted' = NotifyNoticeUpdate
                ELSE UNCHANGED <<notices, emitted>>
             /\ UNCHANGED <<rooms, pending, env, nextNoticeId, notifications, now, comments,
                            nextCommentId>>

CommentsOf_TopLevel(cs, id) ==
    {c \in DOMAIN cs : cs[c].notice = id /\ cs[c].replies # <<>>}

\* The filter { notice: notice._id } of Comment.deleteMany
CommentsOf(cs, id) == {c \in DOMAIN cs : cs[c].notice = id}

\* The handler of router.delete('/:id'), run after authenticate and
\* isAdminOrFaculty
DeleteNotice(token, reqUser, id) ==
    IF id \notin DOMAIN notices
    THEN /\ resp' = [op |-> "delete", status |-> 404, token |-> token, id |-> id,
                     actor |-> reqUser.id]
         /\ UNCHANGED <<rooms, pending, env, users, notices, nextNoticeId, notifications, now,
                        comments, nextCommentId, emitted>>
    ELSE IF ~CanModifyNotice(reqUser, notices[id])
    THEN /\ resp' = [op |-> "delete", status |-> 403, token |-> token, id |-> id,
                     actor |-> reqUser.id]
         /\ UNCHANGED <<rooms, pending, env, users, notices, nextNoticeId, notifications, now,
                        comments, nextCommentId, emitted>>
    ELSE \* Comment.deleteMany({ notice }); Notification.deleteMany({
         \* relatedNotice }); notice.deleteOne()
         /\ comments' = WithoutComments(comments, CommentsOf(comments, id))
         /\ notifications' = SelectSeq(notifications,
                                       LAMBDA n : n.relatedNotice # id)
         /\ notices' = [n \in DOMAIN notices \ {id} |-> notices[n]]
         /\ emitted' = NotifyNoticeUpdate
         /\ resp' = [op |-> "delete", status |-> 200, token |-> token, id |-> id,
                     actor |-> reqUser.id]
         /\ UNCHANGED <<rooms, pending, env, users, nextNoticeId, now, nextCommentId>>

\* isAdminOrFaculty answers 403 and the handler does not run
Forbidden(op, token, reqUser) ==
    /\ resp' = [op |-> op, status |-> 403, token |-> token, actor |-> reqUser.id]
    /\ UNCHANGED <<rooms, pending, env, users, notices, nextNoticeId, notifications, now,
                   comments, nextCommentId, emitted>>

----------------------------------------------------------------------------
(* Spec: the routes as server.js and the routers mount them *)

\* Authorization headers: none, one jwt.verify rejects, and the credentials
\* of a faculty member, an active student and a deactivated student
Tokens == {Absent, "bad", "F", "S1", "S3"}

PlainQuery ==
    [category |-> Absent, department |-> Absent, status |-> Absent, search |-> NoText]

\* Request bodies of POST /notices
CreateBodies ==
    [ wording : {[category |-> "academic", title |-> TextExam, content |-> TextFee]},
      department : {"CSE", AllDepartments},
      targetYear : {Absent},
      status : {Absent, "published", "draft", "scheduled"},
      devAuthorEmail : {Absent},
      devAuthorRole : {Absent, "student"} ]

Init ==
    /\ env \in {"production", "development"}
    /\ users = SeedUsers
    /\ notices = <<>>
    /\ nextNoticeId = 1
    /\ notifications = <<>>
    /\ now = 0
    /\ comments = <<>>
    /\ nextCommentId = 1
    /\ emitted = <<>>
    /\ rooms = <<>>
    /\ pending = <<>>
    /\ resp = NoResp

\* app.use('/api/notices', noticeRoutes); router.get('/', handler): no
\* middleware of the application or of the route sets req.user
ListRoute == Idle /\ \E t \in Tokens : GetNotices(t, NoUser, PlainQuery)

\* router.get('/:id', handler): likewise
ReadRoute == Idle /\ \E t \in Tokens, id \in 1..MaxNotices : GetNotice(t, NoUser, id)

\* router.post('/', handler)
CreateRoute ==
    Idle /\ \E t \in Tokens, b \in CreateBodies, f \in BOOLEAN : CreateNotice(t, b, f)

\* router.post('/:id/acknowledge', authenticate, handler)
AcknowledgeRoute ==
    Idle /\ \E t \in Tokens, id \in 1..MaxNotices :
               IF Authenticate(t) = NoUser
               THEN Unauthorized("ack", t)
               ELSE Acknowledge(t, Authenticate(t), id)

\* Authorization headers of the requests that edit or delete a notice: none,
\* and the credentials of the administrator, the faculty member and a student
StaffTokens == {Absent, "A", "F", "S1"}

\* Request bodies of PUT /notices/:id: the notice is withdrawn to a draft
UpdateBodies ==
    [ department : {Absent}, targetYear : {Absent}, status : {"draft"},
      devAuthorRole : {Absent} ]

\* router.put('/:id', handler)
UpdateRoute ==
    Idle /\ \E t \in StaffTokens, id \in 1..MaxNotices, b \in UpdateBodies :
               UpdateNotice(t, id, b)

\* router.delete('/:id', authenticate, isAdminOrFaculty, handler)
DeleteRoute ==
    Idle /\ \E t \in StaffTokens, id \in 1..MaxNotices :
               IF Authenticate(t) = NoUser
               THEN Unauthorized("delete", t)
               ELSE IF Authenticate(t).role \notin {"admin", "faculty"}
               THEN Forbidden("delete", t, Authenticate(t))
               ELSE DeleteNotice(t, Authenticate(t), id)

\* Every request of a behaviour of Spec is handled at the same clock value:
\* no handler of Spec but the acknowledgment's default timestamp reads it.
Next ==
    \/ ListRoute
    \/ ReadRoute
    \/ CreateRoute
    \/ AcknowledgeRoute
    \/ UpdateRoute
    \/ DeleteRoute
    \/ Deliver

Spec == Init /\ [][Next]_vars

----------------------------------------------------------------------------
(* Properties of view recording and of the single-notice read (SpecRead) *)

\* C1: in every step, a view entry a user already has on a notice stays as
\* it is, and a successful read of notice n by viewer u leaves exactly one
\* entry for u in n.views: stamped with the time of that read when u had
\* none, and with n.views unchanged when u had one.
C1_ViewRecordedOnce ==
    [][ \A n \in DOMAIN notices, u \in UserIds :
          LET before == EntriesOf(notices[n].views, u)
              after  == EntriesOf(notices'[n].views, u)
              readNow == /\ Idle
                         /\ resp'.op = "read"
                         /\ resp'.status = 200
                         /\ resp'.id = n
                         /\ resp'.viewer # NoUser
                         /\ resp'.viewer.id = u
          IN  /\ before # <<>> => after = before
              /\ readNow =>
                   /\ Len(after) = 1
                   /\ before = <<>> => after[1].viewedAt = now
                   /\ before # <<>> => notices'[n].views = notices[n].views
      ]_vars

\* C1 witness: a viewer has read a notice again, later than the time its
\* only view entry records
C1_Witness ==
    /\ resp.op = "read" /\ resp.status = 200 /\ resp.viewer # NoUser
    /\ LET mine == EntriesOf(notices[resp.id].views, resp.viewer.id)
       IN  Len(mine) = 1 /\ mine[1].viewedAt < now

IsStudentWithYear(v) == v # NoUser /\ v.role = "student" /\ v.year \in Years

\* The visibility predicate of a viewer: not archived, department narrowing
\* for students and faculty, targetYear narrowing for students with a year
VisibleTo(v, doc) ==
    /\ ~doc.isArchived
    /\ (v # NoUser /\ v.role \in {"student", "faculty"})
          => doc.department \in {v.department, AllDepartments}
    /\ IsStudentWithYear(v) => doc.targetYear \in {Null, "", v.year}

\* C9 (as claimed): GET /notices/:id returns a notice to a viewer only if
\* the visibility predicate computed for that viewer selects the notice.
C9_ReadAppliesVisibility ==
    (resp.op = "read" /\ resp.status = 200)
    => VisibleTo(resp.viewer, notices[resp.id])

----------------------------------------------------------------------------
(* Properties of the server (Spec) *)

\* The users that have an entry in the list
UsersIn(list) == {list[i].user : i \in 1..Len(list)}

\* C2: no user has two entries in a notice's acknowledged list, and every
\* acknowledge call of an authenticated user on an existing notice succeeds,
\* leaves exactly one entry for that user and returns as acknowledgedCount
\* the number of distinct users that have acknowledged the notice.
C2_AcknowledgeIdempotent ==
    /\ \A n \in DOMAIN notices, u \in DOMAIN users :
         Len(EntriesOf(notices[n].acknowledged, u)) <= 1
    /\ (resp.op = "ack" /\ resp.viewer # NoUser /\ resp.id \in DOMAIN notices)
       => /\ resp.status = 200
          /\ Len(EntriesOf(notices[resp.id].acknowledged, resp.viewer.id)) = 1
          /\ resp.acknowledgedCount
                = Cardinality(UsersIn(notices[resp.id].acknowledged))

\* C2 witness: the user who acknowledged first calls again after a second
\* user has acknowledged too, and is told 2
C2_Witness ==
    /\ resp.op = "ack" /\ resp.status = 200
    /\ resp.acknowledgedCount = 2
    /\ notices[resp.id].acknowledged[1].user = resp.viewer.id

\* C3 (as claimed): a GET /notices or GET /notices/:id request with a valid
\* credential of an active user U is processed with viewer = U, and the
\* single-notice read records a view for U.
C3_CredentialSetsViewer ==
    (resp.op \in {"list", "read"} /\ Authenticate(resp.token) # NoUser)
    => /\ resp.viewer = Authenticate(resp.token)
       /\ (resp.op = "read" /\ resp.status = 200)
             => Has(notices[resp.id].views, resp.token)

\* The new_notice notifications of user u that reference notice n
NewNoticeCount(u, n) ==
    Len(SelectSeq(notifications,
                  LAMBDA x : x.user = u /\ x.type = "new_notice"
                             /\ x.relatedNotice = n))

\* A user POST /notices notifies about a notice of the department
IsTarget(user, department) ==
    /\ user.isActive
    /\ user.role = "student"
    /\ department = AllDepartments \/ user.department = department

\* C10: after POST /notices created a notice with status "published", each
\* active student of the notice's department (any department for "All
\* Departments") has exactly one new_notice notification referencing the
\* notice, every other user has none, and nothing else references it.
C10_PublishNotifiesTargets ==
    (resp.op = "create" /\ resp.status = 201 /\ resp.body.status = "published")
    => /\ \A u \in DOMAIN users :
            NewNoticeCount(u, resp.id)
               = IF IsTarget(users[u], notices[resp.id].department) THEN 1 ELSE 0
       /\ \A i \in 1..Len(notifications) :
            notifications[i].relatedNotice = resp.id
               => /\ notifications[i].type = "new_notice"
                  /\ notifications[i].user \in DOMAIN users

\* C10 witness: a published CSE notice was created; the active CSE student
\* is notified while the ECE student, the deactivated CSE student and the
\* faculty member are in the store
C10_Witness ==
    /\ resp.op = "create" /\ resp.status = 201
    /\ resp.body.status = "published" /\ resp.body.department = "CSE"
    /\ NewNoticeCount("S1", resp.id) = 1
    /\ {"F", "S2", "S3"} \subseteq DOMAIN users

----------------------------------------------------------------------------
(* Properties of the listing (SpecList) *)

\* The last request was a listing
Listed == resp.op = "list"

\* The term occurs in the notice's title or content, letter case ignored
SearchHit(doc, term) ==
    \/ RegexMatchI(doc.title, term)
    \/ RegexMatchI(doc.content, term)

\* The notice passes the request's category filter, if it carries one
CategoryOk(doc, q) == Given(q.category) => doc.category = q.category

\* The notice has the status the request asks for, "published" by default
StatusOk(doc, q) ==
    doc.status = (IF q.status \in {Absent, ""} THEN "published" ELSE q.status)

\* The notice passes the request's search, if it carries one
SearchOk(doc, q) == q.search # NoText => SearchHit(doc, q.search)

C6_SearchAlwaysApplied ==
    (Listed /\ resp.query.search # NoText)
    => \A n \in resp.data : SearchHit(notices[n], resp.query.search)

\* C7: with a department parameter X other than 'all', every returned
\* notice has department X or "All Departments", and the result is the one
\* the same request gets for a viewer of any other department.
C7_DepartmentParamWins ==
    (Listed /\ Given(resp.query.department))
    => /\ \A n \in resp.data :
            notices[n].department \in {resp.query.department, AllDepartments}
       /\ \A d \in Departments \cup {"Administration"} :
            resp.viewer # NoUser =>
               resp.data = Find(ListQuery([resp.viewer EXCEPT !.department = d],
                                          resp.query))

\* C7 witness: a viewer of department CSE asked for department ECE and got
\* an ECE notice
C7_Witness ==
    /\ Listed /\ resp.query.department = "ECE"
    /\ resp.viewer # NoUser /\ resp.viewer.department = "CSE"
    /\ \E n \in resp.data : notices[n].department = "ECE"

\* C8: no listing returns an archived notice, and a listing with no status
\* parameter returns only published notices.
C8_NoArchivedDefaultPublished ==
    Listed
    => \A n \in resp.data :
         /\ ~notices[n].isArchived
         /\ resp.query.status = Absent => notices[n].status = "published"

\* C8 witness: a plain anonymous listing has left out a published notice
\* that is archived
C8_Witness ==
    /\ Listed /\ resp.viewer = NoUser /\ ~Given(resp.query.department)
    /\ resp.query.status = Absent /\ resp.query.search = NoText
    /\ resp.query.category = Absent
    /\ \E n \in DOMAIN notices \ resp.data :
         notices[n].isArchived /\ notices[n].status = "published"

----------------------------------------------------------------------------
(* SpecThread: the comment routes and the notice deletion on a seeded store *)

\* Notice.create of the seeder: a department notice of the faculty member and
\* a notice for all departments of the administrator
ThreadNotices ==
    <<Doc([category |-> "events", title |-> TextHall, content |-> TextFee],
          "CSE", "3rd Year", "F", "published", FALSE),
      Doc([category |-> "exams", title |-> TextExam, content |-> TextHall],
          AllDepartments, Null, "A", "published", FALSE)>>

\* Authorization headers of the requests of SpecThread
ThreadTokens == {Absent, "A", "F", "S1"}

InitThread ==
    /\ env \in {"production", "development"}
    /\ users = SeedUsers
    /\ notices = ThreadNotices
    /\ nextNoticeId = Len(ThreadNotices) + 1
    /\ notifications = <<>>
    /\ now = 0
    /\ resp = NoResp
    /\ comments = <<>>
    /\ nextCommentId = 1
    /\ emitted = <<>>
    /\ rooms = <<>>
    /\ pending = <<>>

\* app.use('/api/comments', commentRoutes); router.post('/', handler). The
\* parent a reply names is an _id the store has handed out
CommentRoute ==
    Idle /\ \E t \in ThreadTokens, n \in DOMAIN ThreadNotices,
               p \in 0..(nextCommentId - 1), f \in BOOLEAN :
               CreateComment(t, [noticeId |-> n, content |-> TextHall,
                                 parentCommentId |-> p], f)

\* router.put('/:id', handler)
EditCommentRoute ==
    Idle /\ \E t \in ThreadTokens, id \in 1..MaxComments :
               UpdateComment(t, id, [content |-> TextFee])

\* router.delete('/:id', handler)
DeleteCommentRoute ==
    Idle /\ \E t \in ThreadTokens, id \in 1..MaxComments : DeleteComment(t, id)

\* router.delete('/:id', authenticate, isAdminOrFaculty, handler)
DeleteNoticeRoute ==
    Idle /\ \E t \in ThreadTokens, id \in DOMAIN ThreadNotices :
               IF Authenticate(t) = NoUser
               THEN Unauthorized("delete", t)
               ELSE IF Authenticate(t).role \notin {"admin", "faculty"}
               THEN Forbidden("delete", t, Authenticate(t))
               ELSE DeleteNotice(t, Authenticate(t), id)

NextThread ==
    \/ CommentRoute
    \/ EditCommentRoute
    \/ DeleteCommentRoute
    \/ DeleteNoticeRoute
    \/ Deliver

SpecThread == InitThread /\ [][NextThread]_vars

----------------------------------------------------------------------------
(* SpecInactive: the routes of SpecThread after accounts were deactivated *)

\* The seeded users after PUT /users/:id set isActive to false on the
\* faculty member and on the student whose credentials the requests carry
DeactivatedUsers ==
    [u \in DOMAIN SeedUsers |->
        IF u \in {"F", "S1"} THEN [SeedUsers[u] EXCEPT !.isActive = FALSE]
        ELSE SeedUsers[u]]

InitInactive ==
    /\ env \in {"production", "development"}
    /\ users = DeactivatedUsers
    /\ notices = ThreadNotices
    /\ nextNoticeId = Len(ThreadNotices) + 1
    /\ notifications = <<>>
    /\ now = 0
    /\ resp = NoResp
    /\ comments = <<>>
    /\ nextCommentId = 1
    /\ emitted = <<>>
    /\ rooms = <<>>
    /\ pending = <<>>

SpecInactive == InitInactive /\ [][NextThread]_vars

----------------------------------------------------------------------------
(* PUT /notifications/:id/read, PUT /notifications/read-all and
   DELETE /notifications/:id. A notification is named by its position in
   the collection at the time of the request. *)

OwnedBy_Anyone(n, reqUser) == TRUE

\* The filter { user: req.user._id } of findOne and updateMany
OwnedBy(n, reqUser) == n.user = reqUser.id

\* Notification.findOne({ _id: req.params.id, user: req.user._id })
FindOwn(reqUser, id) ==
    id \in 1..Len(notifications) /\ OwnedBy(notifications[id], reqUser)

\* The handler of router.put('/:id/read'), run after authenticate
MarkRead(token, reqUser, id) ==
    /\ resp' = [op |-> "markRead", token |-> token, viewer |-> reqUser, id |-> id,
                status |-> IF FindOwn(reqUser, id) THEN 200 ELSE 404]
    /\ notifications' = IF FindOwn(reqUser, id)
                        THEN [notifications EXCEPT ![id].isRead = TRUE]
                        ELSE notifications
    /\ UNCHANGED <<rooms, pending, env, users, notices, nextNoticeId, now,
                   comments, nextCommentId, emitted>>

\* The handler of router.put('/read-all'), run after authenticate:
\* Notification.updateMany({ user, isRead: false }, { isRead: true })
MarkAllRead(token, reqUser) ==
    /\ resp' = [op |-> "markAllRead", token |-> token, viewer |-> reqUser,
                status |-> 200]
    /\ notifications' =
          [i \in 1..Len(notifications) |->
              IF OwnedBy(notifications[i], reqUser) /\ ~notifications[i].isRead
              THEN [notifications[i] EXCEPT !.isRead = TRUE]
              ELSE notifications[i]]
    /\ UNCHANGED <<rooms, pending, env, users, notices, nextNoticeId, now,
                   comments, nextCommentId, emitted>>

\* The handler of router.delete('/:id'), run after authenticate
DeleteNotification(token, reqUser, id) ==
    /\ resp' = [op |-> "deleteNotification", token |-> token, viewer |-> reqUser,
                id |-> id, status |-> IF FindOwn(reqUser, id) THEN 200 ELSE 404]
    /\ notifications' =
          IF FindOwn(reqUser, id)
          THEN SubSeq(notifications, 1, id - 1)
               \o SubSeq(notifications, id + 1, Len(notifications))
          ELSE notifications
    /\ UNCHANGED <<rooms, pending, env, users, notices, nextNoticeId, now,
                   comments, nextCommentId, emitted>>

(* SpecInbox: the notification routes on the store the comment route leaves
   after three comments on the seeded notices *)

\* The student's comment on each seeded notice and the faculty member's
\* comment on the administrator's notice
InboxComments ==
    <<NewComment([noticeId |-> 1, content |-> TextHall], "S1"),
      NewComment([noticeId |-> 2, content |-> TextHall], "S1"),
      NewComment([noticeId |-> 2, content |-> TextHall], "F")>>

\* The notifications these comments left for the notices' authors
InboxNotifications ==
    [c \in 1..Len(InboxComments) |->
        CommentNotification(ThreadNotices[InboxComments[c].notice].author,
                            InboxComments[c].notice, c)]

InitInbox ==
    /\ env = "production"
    /\ users = SeedUsers
    /\ notices = ThreadNotices
    /\ nextNoticeId = Len(ThreadNotices) + 1
    /\ notifications = InboxNotifications
    /\ now = 0
    /\ resp = NoResp
    /\ comments = InboxComments
    /\ nextCommentId = Len(InboxComments) + 1
    /\ emitted = <<>>
    /\ rooms = <<>>
    /\ pending = <<>>

\* Authorization headers of the requests of SpecInbox
InboxTokens == {Absent, "A", "F", "S1", "S3"}

\* router.put('/:id/read', authenticate, handler)
MarkReadRoute ==
    Idle /\ \E t \in InboxTokens, id \in 1..Len(InboxNotifications) :
               IF Authenticate(t) = NoUser
               THEN Unauthorized("markRead", t)
               ELSE MarkRead(t, Authenticate(t), id)

\* router.put('/read-all', authenticate, handler)
MarkAllReadRoute ==
    Idle /\ \E t \in InboxTokens :
               IF Authenticate(t) = NoUser
               THEN Unauthorized("markAllRead", t)
               ELSE MarkAllRead(t, Authenticate(t))

\* router.delete('/:id', authenticate, handler)
DeleteNotificationRoute ==
    Idle /\ \E t \in InboxTokens, id \in 1..Len(InboxNotifications) :
               IF Authenticate(t) = NoUser
               THEN Unauthorized("deleteNotification", t)
               ELSE DeleteNotification(t, Authenticate(t), id)

NextInbox ==
    \/ MarkReadRoute
    \/ MarkAllReadRoute
    \/ DeleteNotificationRoute
    \/ Deliver

SpecInbox == InitInbox /\ [][NextInbox]_vars

----------------------------------------------------------------------------
(* socket.io connections (socketService.initSocket) *)

\* io.on('connection'): a socket that has joined no user room and has sent
\* no join-room message
Connect(c) ==
    /\ c \notin DOMAIN rooms
    /\ rooms' = [x \in DOMAIN rooms \cup {c} |->
                    IF x = c THEN [joined |-> {}, sent |-> {}] ELSE rooms[x]]
    /\ UNCHANGED <<env, users, notices, nextNoticeId, notifications, now, resp,
                   comments, nextCommentId, emitted, pending>>

\* socket.on('disconnect'): the socket leaves its rooms
Disconnect(c) ==
    /\ c \in DOMAIN rooms
    /\ rooms' = [x \in DOMAIN rooms \ {c} |-> rooms[x]]
    /\ UNCHANGED <<env, users, notices, nextNoticeId, notifications, now, resp,
                   comments, nextCommentId, emitted, pending>>

\* socket.on('join-room', userId): if (userId) socket.join(`user-${userId}`);
\* sent keeps the arguments of the join-room messages of the socket
JoinRoom(c, userId) ==
    /\ c \in DOMAIN rooms
    /\ rooms' = [rooms EXCEPT
                    ![c].sent = @ \cup {userId},
                    ![c].joined = IF userId # Absent
                                  THEN @ \cup {UserRoom(userId)} ELSE @]
    /\ UNCHANGED <<env, users, notices, nextNoticeId, notifications, now, resp,
                   comments, nextCommentId, emitted, pending>>

(* SpecSocket: top-level comments on the seeded notices while clients
   connect, join rooms and disconnect *)

Sockets == {"k1", "k2"}

\* The arguments of the join-room messages: none, and the ids of the authors
\* of the seeded notices
JoinArguments == {Absent, "F", "A"}

ConnectEvent == \E c \in Sockets : Connect(c)

DisconnectEvent == \E c \in Sockets : Disconnect(c)

JoinRoomEvent == \E c \in Sockets, u \in JoinArguments : JoinRoom(c, u)

\* router.post('/', handler) of the comment router, for top-level comments
\* of the student and of the faculty member
SocketCommentRoute ==
    Idle /\ \E t \in {"S1", "F"}, n \in DOMAIN ThreadNotices :
               CreateComment(t, [noticeId |-> n, content |-> TextHall,
                                 parentCommentId |-> NoId], FALSE)

NextSocket ==
    \/ ConnectEvent
    \/ DisconnectEvent
    \/ JoinRoomEvent
    \/ SocketCommentRoute
    \/ Deliver

SpecSocket == InitThread /\ [][NextSocket]_vars

----------------------------------------------------------------------------
(* SpecRace: acknowledgments and views whose check and save are separate
   steps, so that requests overlap. pending[r] holds the locals of request r
   (what it adds to which notice for which user), its position, and whether
   another request for the same entry was between its check and its save
   while r was. Responses are not tracked. *)

\* The list of the notice a request of the kind appends to
ListOf(notice, kind) == IF kind = "ack" THEN notice.acknowledged ELSE notice.views

PassesCheck_Always(list, userId) == TRUE

\* !hasAcknowledged, !hasViewed: no entry of the list names the user
PassesCheck(list, userId) == ~Has(list, userId)

\* The requests about the same entry that have checked and not yet saved
InProgress(kind, userId, id) ==
    {q \in DOMAIN pending :
        /\ pending[q].pc = "checked"
        /\ pending[q].kind = kind
        /\ pending[q].user = userId
        /\ pending[q].notice = id}

\* Notice.findById and the some() check of router.post('/:id/acknowledge')
\* (kind "ack", after authenticate) and of router.get('/:id') (kind "view",
\* with req.user set)
CheckEntry(r, kind, reqUser, id) ==
    /\ r \notin DOMAIN pending
    /\ id \in DOMAIN notices
    /\ LET passes == PassesCheck(ListOf(notices[id], kind), reqUser.id)
           others == InProgress(kind, reqUser.id, id)
       IN  pending' =
              [q \in DOMAIN pending \cup {r} |->
                  IF q = r
                  THEN [kind |-> kind, user |-> reqUser.id, notice |-> id,
                        pc |-> IF passes THEN "checked" ELSE "done",
                        overlapped |-> passes /\ others # {}]
                  ELSE IF passes /\ q \in others
                  THEN [pending[q] EXCEPT !.overlapped = TRUE]
                  ELSE pending[q]]
    /\ UNCHANGED <<env, users, notices, nextNoticeId, notifications, now, resp,
                   comments, nextCommentId, emitted, rooms>>

\* notice.acknowledged.push({ user }) / notice.views.push({ user }) and
\* notice.save(): the save sends the pushed element, which the store appends
\* to the array it holds
SaveEntry(r) ==
    /\ r \in DOMAIN pending
    /\ pending[r].pc = "checked"
    /\ LET id == pending[r].notice
       IN  notices' =
              IF pending[r].kind = "ack"
              THEN [notices EXCEPT ![id].acknowledged =
                       Append(@, [user |-> pending[r].user,
                                  acknowledgedAt |-> now])]
              ELSE [notices EXCEPT ![id].views =
                       Append(@, [user |-> pending[r].user, viewedAt |-> now])]
    /\ pending' = [pending EXCEPT ![r].pc = "done"]
    /\ UNCHANGED <<env, users, nextNoticeId, notifications, now, resp,
                   comments, nextCommentId, emitted, rooms>>

\* The users whose requests race
RaceUsers == {"S1", "S2"}

CheckStep ==
    \E r \in 1..MaxRequests, kind \in {"ack", "view"}, u \in RaceUsers,
       id \in DOMAIN ThreadNotices :
       CheckEntry(r, kind, Authenticate(u), id)

SaveStep == \E r \in 1..MaxRequests : SaveEntry(r)

NextRace == CheckStep \/ SaveStep

SpecRace == InitThread /\ [][NextRace]_vars

----------------------------------------------------------------------------
(* SpecInterleave: POST /comments, POST /notices and DELETE /notices/:id
   with every awaited store operation a step of its own. pending[r] holds
   the locals of request r: the actor, the notice (and for a comment the
   populated author of the notice), the comment saved, and the position.
   Responses and socket events are not tracked. *)

\* The locals of a request
Locals(kind, actor, id, author, pc) ==
    [kind |-> kind, actor |-> actor, notice |-> id, author |-> author,
     comment |-> NoId, pc |-> pc]

\* The request starts: r is not in use
Start(r, locals) ==
    /\ r \notin DOMAIN pending
    /\ pending' = [q \in DOMAIN pending \cup {r} |->
                      IF q = r THEN locals ELSE pending[q]]

\* Request r is at position pc of a handler of the kind
At(r, kind, pc) ==
    r \in DOMAIN pending /\ pending[r].kind = kind /\ pending[r].pc = pc

\* POST /comments: await Notice.findById(noticeId).populate('author') finds
\* the notice; the actor is resolved
CommentFind(r, token, id) ==
    /\ id \in DOMAIN notices
    /\ ResolveToken(token) # NoUser
    /\ Start(r, Locals("comment", token, id, notices[id].author, "found"))
    /\ UNCHANGED <<env, users, notices, nextNoticeId, notifications, now, resp,
                   comments, nextCommentId, emitted, rooms>>

\* POST /comments: await comment.save(), no parentCommentId
CommentSave(r) ==
    /\ At(r, "comment", "found")
    /\ nextCommentId <= MaxComments
    /\ comments' = [c \in DOMAIN comments \cup {nextCommentId} |->
                       IF c = nextCommentId
                       THEN NewComment([noticeId |-> pending[r].notice,
                                        content |-> TextHall], pending[r].actor)
                       ELSE comments[c]]
    /\ nextCommentId' = nextCommentId + 1
    /\ pending' = [pending EXCEPT ![r].pc = "saved", ![r].comment = nextCommentId]
    /\ UNCHANGED <<env, users, notices, nextNoticeId, notifications, now, resp,
                   emitted, rooms>>

\* POST /comments: await notification.save() for the notice's author
CommentNotify(r) ==
    /\ At(r, "comment", "saved")
    /\ notifications' =
          IF NotifiesNoticeAuthor(users, pending[r].author, pending[r].actor)
          THEN Append(notifications,
                      CommentNotification(pending[r].author, pending[r].notice,
                                          pending[r].comment))
          ELSE notifications
    /\ pending' = [pending EXCEPT ![r].pc = "done"]
    /\ UNCHANGED <<env, users, notices, nextNoticeId, now, resp, comments,
                   nextCommentId, emitted, rooms>>

\* The body of the POST /notices of SpecInterleave: published, for CSE
InterleaveBody ==
    [wording |-> [category |-> "academic", title |-> TextExam, content |-> TextFee],
     department |-> "CSE", targetYear |-> Absent, status |-> "published",
     devAuthorEmail |-> Absent, devAuthorRole |-> Absent]

\* POST /notices by a faculty member or administrator: await notice.save()
NoticeSave(r, token) ==
    /\ ResolveToken(token).role \in {"admin", "faculty"}
    /\ nextNoticeId <= Len(ThreadNotices) + MaxNotices
    /\ Start(r, Locals("create", token, nextNoticeId, token, "saved"))
    /\ notices' = [n \in DOMAIN notices \cup {nextNoticeId} |->
                      IF n = nextNoticeId THEN NewNotice(InterleaveBody, token)
                      ELSE notices[n]]
    /\ nextNoticeId' = nextNoticeId + 1
    /\ UNCHANGED <<env, users, notifications, now, resp, comments,
                   nextCommentId, emitted, rooms>>

\* POST /notices: await User.find(...) and await Notification.insertMany(...)
NoticeNotify(r) ==
    /\ At(r, "create", "saved")
    /\ notifications' =
          notifications
          \o NewNoticeNotifications(TargetUsers(users, InterleaveBody.department),
                                    pending[r].notice)
    /\ pending' = [pending EXCEPT ![r].pc = "done"]
    /\ UNCHANGED <<env, users, notices, nextNoticeId, now, resp, comments,
                   nextCommentId, emitted, rooms>>

\* DELETE /notices/:id after authenticate and isAdminOrFaculty: await
\* Notice.findById finds the notice, the user is its author or an admin
DeleteFind(r, reqUser, id) ==
    /\ reqUser.role \in {"admin", "faculty"}
    /\ id \in DOMAIN notices
    /\ CanModifyNotice(reqUser, notices[id])
    /\ Start(r, Locals("delete", reqUser.id, id, notices[id].author, "found"))
    /\ UNCHANGED <<env, users, notices, nextNoticeId, notifications, now, resp,
                   comments, nextCommentId, emitted, rooms>>

\* DELETE /notices/:id: await Comment.deleteMany({ notice })
DeleteComments(r) ==
    /\ At(r, "delete", "found")
    /\ comments' = WithoutComments(comments,
                                   CommentsOf(comments, pending[r].notice))
    /\ pending' = [pending EXCEPT ![r].pc = "comments"]
    /\ UNCHANGED <<env, users, notices, nextNoticeId, notifications, now, resp,
                   nextCommentId, emitted, rooms>>

\* DELETE /notices/:id: await Notification.deleteMany({ relatedNotice })
DeleteNotifications(r) ==
    /\ At(r, "delete", "comments")
    /\ notifications' = SelectSeq(notifications,
                                  LAMBDA n : n.relatedNotice # pending[r].notice)
    /\ pending' = [pending EXCEPT ![r].pc = "notifications"]
    /\ UNCHANGED <<env, users, notices, nextNoticeId, now, resp, comments,
                   nextCommentId, emitted, rooms>>

\* DELETE /notices/:id: await notice.deleteOne()
DeleteOne(r) ==
    /\ At(r, "delete", "notifications")
    /\ notices' = [n \in DOMAIN notices \ {pending[r].notice} |-> notices[n]]
    /\ pending' = [pending EXCEPT ![r].pc = "done"]
    /\ UNCHANGED <<env, users, nextNoticeId, notifications, now, resp, comments,
                   nextCommentId, emitted, rooms>>

CommentFindStep ==
    \E r \in 1..MaxRequests, t \in {"S1"}, id \in 1..(nextNoticeId - 1) :
       CommentFind(r, t, id)

CommentSaveStep == \E r \in 1..MaxRequests : CommentSave(r)

CommentNotifyStep == \E r \in 1..MaxRequests : CommentNotify(r)

NoticeSaveStep == \E r \in 1..MaxRequests, t \in {"F"} : NoticeSave(r, t)

NoticeNotifyStep == \E r \in 1..MaxRequests : NoticeNotify(r)

DeleteFindStep ==
    \E r \in 1..MaxRequests, t \in {"F", "A"}, id \in 1..(nextNoticeId - 1) :
       Authenticate(t) # NoUser /\ DeleteFind(r, Authenticate(t), id)

DeleteCommentsStep == \E r \in 1..MaxRequests : DeleteComments(r)

DeleteNotificationsStep == \E r \in 1..MaxRequests : DeleteNotifications(r)

DeleteOneStep == \E r \in 1..MaxRequests : DeleteOne(r)

NextInterleave ==
    \/ CommentFindStep
    \/ CommentSaveStep
    \/ CommentNotifyStep
    \/ NoticeSaveStep
    \/ NoticeNotifyStep
    \/ DeleteFindStep
    \/ DeleteCommentsStep
    \/ DeleteNotificationsStep
    \/ DeleteOneStep

SpecInterleave == InitThread /\ [][NextInterleave]_vars

----------------------------------------------------------------------------
(* Notification Recorder and Real-Time Broadcaster: unpublished notices *)

\* C11: a POST /notices that creates a notice with status scheduled or draft
\* leaves the notification collection as it was and emits no socket event.
C11_UnpublishedIsSilent ==
    [][(/\ Idle
        /\ resp'.op = "create"
        /\ resp'.status = 201
        /\ resp'.body.status \in {"scheduled", "draft"})
       => (notifications' = notifications /\ emitted' = <<>>)]_vars

\* A scheduled notice for a department with an active student was created
\* and nothing was emitted
C11_Witness ==
    /\ resp.op = "create"
    /\ resp.status = 201
    /\ resp.body.status = "scheduled"
    /\ resp.body.department = "CSE"
    /\ resp.id \in DOMAIN notices
    /\ notices[resp.id].status = "scheduled"
    /\ emitted = <<>>

\* C18: when the write of the new_notice notifications fails, the request is
\* still answered as a success and the notice stays in the store.
C18_NotificationFailureTolerated ==
    (resp.op = "create" /\ "insertFailed" \in DOMAIN resp /\ resp.insertFailed)
    => (resp.status = 201 /\ resp.id \in DOMAIN notices)

----------------------------------------------------------------------------
(* Comment Thread Manager: notifications of a new comment *)

\* The notification records a step appended
Appended == SubSeq(notifications', Len(notifications) + 1, Len(notifications'))

\* The request of the step is the POST /comments that persisted a comment
\* and answered 201
Commented == Idle /\ resp'.op = "comment" /\ resp'.status = 201

\* C12: a successful top-level comment by C on notice N adds exactly one
\* comment notification, addressed to N's author and referencing N and the
\* new comment, when N's author is not C, and adds none when N's author is C.
C12_TopLevelCommentNotifiesAuthor ==
    [][(Commented /\ resp'.body.parentCommentId = NoId)
       => LET n      == resp'.body.noticeId
              author == notices[n].author
          IN  Appended =
                 IF author # resp'.actor
                 THEN <<[user |-> author, type |-> "comment", relatedNotice |-> n,
                         relatedComment |-> resp'.id, isRead |-> FALSE]>>
                 ELSE <<>>]_vars

\* The student's top-level comment on the faculty member's notice left one
\* notification for the faculty member
C12_Witness ==
    /\ resp.op = "comment"
    /\ resp.status = 201
    /\ resp.body.parentCommentId = NoId
    /\ resp.actor = "S1"
    /\ notices[resp.body.noticeId].author = "F"
    /\ Len(notifications) = 1
    /\ notifications[1].user = "F"
    /\ notifications[1].relatedComment = resp.id

\* C13: a successful reply by C to a comment of the same notice adds a comment
\* notification addressed to the parent comment's author when that author is
\* not C, besides the one for the notice's author: two records for the same
\* user when the parent's author is the notice's author.
C13_ReplyNotifiesParentAuthor ==
    [][(/\ Commented
        /\ resp'.body.parentCommentId \in DOMAIN comments
        /\ comments[resp'.body.parentCommentId].notice = resp'.body.noticeId
        /\ comments[resp'.body.parentCommentId].author # resp'.actor)
       => LET parentAuthor == comments[resp'.body.parentCommentId].author
              noticeAuthor == notices[resp'.body.noticeId].author
              toParentAuthor ==
                  {i \in 1..Len(Appended) :
                      /\ Appended[i].user = parentAuthor
                      /\ Appended[i].type = "comment"
                      /\ Appended[i].relatedComment = resp'.id}
          IN  Cardinality(toParentAuthor)
                 = IF noticeAuthor = parentAuthor THEN 2 ELSE 1]_vars

\* C14: a reply whose parentCommentId names a comment of another notice is
\* answered 400 and the Comment collection stays as it was.
C14_CrossNoticeReplyRejected ==
    [][(/\ Idle
        /\ resp'.op = "comment"
        /\ resp'.status # 401
        /\ resp'.body.noticeId \in DOMAIN notices
        /\ resp'.body.parentCommentId \in DOMAIN comments
        /\ comments[resp'.body.parentCommentId].notice # resp'.body.noticeId)
       => (resp'.status = 400 /\ comments' = comments)]_vars

----------------------------------------------------------------------------
(* Comment Thread Manager: deletion *)

\* The request of the step is the DELETE /comments/:id that answered 200
CommentDeleted == Idle /\ resp'.op = "deleteComment" /\ resp'.status = 200

\* r was attached as a reply to p
IsReplyOf(cs, r, p) == \E i \in 1..Len(cs[p].replies) : cs[p].replies[i] = r

\* C15: deleting a top-level comment P removes P and every comment that was
\* created as a reply to P.
C15_DeleteCascadesToReplies ==
    [][(/\ CommentDeleted
        /\ \A p \in DOMAIN comments : ~IsReplyOf(comments, resp'.id, p))
       => /\ resp'.id \notin DOMAIN comments'
          /\ \A r \in DOMAIN comments :
                IsReplyOf(comments, r, resp'.id) => r \notin DOMAIN comments']_vars

\* C16: deleting a reply R of P takes R's id out of P.replies; P stays, and
\* P.replies keeps exactly the other replies.
C16_DeleteReplyDetaches ==
    [][CommentDeleted
       => \A p \in DOMAIN comments :
             IsReplyOf(comments, resp'.id, p)
             => /\ p \in DOMAIN comments'
                /\ comments'[p].replies
                      = SelectSeq(comments[p].replies, LAMBDA r : r # resp'.id)]_vars

\* C17: a successful DELETE /notices/:id leaves no comment of the notice and
\* no notification related to it; the comments and notifications of the other
\* notices are as before.
C17_NoticeDeleteCascades ==
    [][(Idle /\ resp'.op = "delete" /\ resp'.status = 200)
       => LET n == resp'.id
          IN  /\ n \notin DOMAIN notices'
              /\ \A c \in DOMAIN comments' : comments'[c].notice # n
              /\ \A i \in 1..Len(notifications') :
                    notifications'[i].relatedNotice # n
              /\ \A c \in DOMAIN comments :
                    comments[c].notice # n
                    => c \in DOMAIN comments' /\ comments'[c] = comments[c]
              /\ notifications'
                    = SelectSeq(notifications, LAMBDA x : x.relatedNotice # n)]_vars

\* The faculty member's notice was deleted after a comment on each notice
\* had been written: the comment on the administrator's notice and its
\* notification are what is left
C17_Witness ==
    /\ resp.op = "delete"
    /\ resp.status = 200
    /\ resp.id = 1
    /\ nextCommentId = 3
    /\ DOMAIN comments = {2}
    /\ comments[2].notice = 2
    /\ Len(notifications) = 1
    /\ notifications[1].relatedNotice = 2
    /\ notifications[1].relatedComment = 2

----------------------------------------------------------------------------
(* Authorization of the notice mutations *)

\* C19: POST /notices persists a notice only for an actor of role admin or
\* faculty; PUT and DELETE /notices/:id change or remove the notice only for
\* its author or an administrator; a request answered 403 leaves notices,
\* comments and notifications as they were.
C19_NoticeAuthorization ==
    [][(Idle /\ resp'.op \in {"create", "update", "delete"})
       => /\ (resp'.op = "create" /\ notices' # notices)
             => users'[resp'.actor].role \in {"admin", "faculty"}
          /\ (resp'.op \in {"update", "delete"} /\ notices' # notices)
             => /\ resp'.actor \in DOMAIN users'
                /\ \/ notices[resp'.id].author = resp'.actor
                   \/ users'[resp'.actor].role = "admin"
          /\ resp'.status = 403
             => UNCHANGED <<notices, comments, notifications>>]_vars

\* The faculty member was refused the deletion of a published notice of
\* somebody else, whose notifications are in the store
C19_Witness ==
    /\ resp.op = "delete"
    /\ resp.status = 403
    /\ resp.actor = "F"
    /\ resp.id \in DOMAIN notices
    /\ notices[resp.id].author # "F"
    /\ notifications # <<>>

----------------------------------------------------------------------------
(* Side effects of POST /comments and POST /notices *)

\* C23: every POST /comments answered 201 emits the notification-update
\* signal and the untargeted new-comment signal to all connections.
C23_CommentBroadcasts ==
    [][Commented
       => /\ \E i \in 1..Len(emitted') :
                emitted'[i] = Emit("notification-update", Broadcast)
          /\ \E i \in 1..Len(emitted') :
                emitted'[i] = Emit("new-comment", Broadcast)]_vars

\* C24: whenever POST /comments persisted a comment on a notice whose author
\* is not the commenter, the request also wrote the notification for the
\* notice's author, whatever parentCommentId was.
C24_NoticeAuthorAlwaysNotified ==
    [][(/\ Idle
        /\ resp'.op = "comment"
        /\ nextCommentId' # nextCommentId
        /\ notices[resp'.body.noticeId].author # resp'.actor)
       => \E i \in 1..Len(Appended) :
             /\ Appended[i].user = notices[resp'.body.noticeId].author
             /\ Appended[i].type = "comment"
             /\ Appended[i].relatedComment = resp'.id]_vars

\* C27: c is listed in p.replies exactly when c exists and c.parentComment is
\* p, and then both belong to the same notice.
C27_ReplyLinkage ==
    \A p \in DOMAIN comments :
       /\ \A i \in 1..Len(comments[p].replies) :
             LET c == comments[p].replies[i]
             IN  /\ c \in DOMAIN comments
                 /\ comments[c].parentComment = p
                 /\ comments[c].notice = comments[p].notice
       /\ \A c \in DOMAIN comments :
             comments[c].parentComment = p => IsReplyOf(comments, c, p)

\* C29: a notice POST /notices stored with status published, the status
\* omitted from the request included, has one new_notice notification for
\* each active student of its department.
C29_StoredPublishedNotifies ==
    (/\ resp.op = "create"
     /\ resp.status = 201
     /\ notices[resp.id].status = "published")
    => \A u \in DOMAIN users :
          IsTarget(users[u], notices[resp.id].department)
          => NewNoticeCount(u, resp.id) = 1

\* C25: when the parent passed validation and saving its reply list fails,
\* the request is still answered 201 and the new comment stays in the store.
C25_AttachFailureTolerated ==
    [][(Idle /\ resp'.op = "comment" /\ "attachFailed" \in DOMAIN resp'
        /\ resp'.attachFailed)
       => /\ resp'.status = 201
          /\ resp'.id \notin DOMAIN comments
          /\ resp'.id \in DOMAIN comments'
          /\ comments'[resp'.id].author = resp'.actor
          /\ comments'[resp'.id].notice = resp'.body.noticeId]_vars

\* A reply was answered 201 although its parent's reply list could not be
\* saved: the reply is stored and the parent lists no reply
C25_Witness ==
    /\ resp.op = "comment"
    /\ "attachFailed" \in DOMAIN resp
    /\ resp.attachFailed
    /\ resp.status = 201
    /\ resp.id \in DOMAIN comments
    /\ resp.body.parentCommentId \in DOMAIN comments
    /\ comments[resp.body.parentCommentId].replies = <<>>

----------------------------------------------------------------------------
(* Deactivated accounts *)

\* C30: a request that carries the credential of a user whose isActive flag
\* is false changes no notice, no comment and no notification.
C30_InactiveUserChangesNothing ==
    [][(/\ Idle
        /\ resp'.op # "none"
        /\ resp'.token \in DOMAIN users
        /\ ~users[resp'.token].isActive)
       => UNCHANGED <<notices, comments, notifications>>]_vars

----------------------------------------------------------------------------
(* Notification ownership *)

\* The notifications of a sequence whose recipient is not u
OfOthers(seq, u) == SelectSeq(seq, LAMBDA n : n.user # u)

\* C21: a mark-as-read, mark-all-as-read or delete by user U leaves every
\* notification of another recipient in place and unmodified; naming another
\* user's notification is answered 404 and changes nothing; mark-all-as-read
\* sets the read flag on all notifications of U and on no other.
C21_NotificationOwnership ==
    [][(/\ Idle
        /\ resp'.op \in {"markRead", "markAllRead", "deleteNotification"}
        /\ resp'.viewer # NoUser)
       => LET u == resp'.viewer.id
          IN  /\ OfOthers(notifications', u) = OfOthers(notifications, u)
              /\ (/\ resp'.op \in {"markRead", "deleteNotification"}
                  /\ resp'.id \in 1..Len(notifications)
                  /\ notifications[resp'.id].user # u)
                 => (resp'.status = 404 /\ notifications' = notifications)
              /\ resp'.op = "markAllRead"
                 => notifications' =
                       [i \in 1..Len(notifications) |->
                           IF notifications[i].user = u
                           THEN [notifications[i] EXCEPT !.isRead = TRUE]
                           ELSE notifications[i]]]_vars

\* The administrator marked all as read: both of the administrator's
\* notifications are read and the faculty member's is still unread
C21_Witness ==
    /\ resp.op = "markAllRead"
    /\ resp.status = 200
    /\ resp.viewer.id = "A"
    /\ Len(notifications) = 3
    /\ \A i \in 1..3 : notifications[i].isRead <=> notifications[i].user = "A"

----------------------------------------------------------------------------
(* Targeted delivery *)

\* C22: the new-comment event POST /comments emits for the notice's author U
\* is sent to exactly the connected sockets that sent join-room(U), once
\* each, whatever else they sent; the request is answered 201 whether or
\* not any socket is connected.
C22_TargetedDelivery ==
    [][(/\ Commented
        /\ notices[resp'.body.noticeId].author # resp'.actor)
       => LET u      == notices[resp'.body.noticeId].author
              events == {i \in 1..Len(emitted') :
                            /\ emitted'[i].event = "new-comment"
                            /\ emitted'[i].room = UserRoom(u)}
          IN  /\ Cardinality(events) = 1
              /\ \A i \in events :
                    emitted'[i].to = {c \in DOMAIN rooms : u \in rooms[c].sent}]_vars

\* The student's comment on the faculty member's notice was sent to the one
\* socket that joined the faculty member's room, not to the connected socket
\* that sent join-room without a user id and joined the administrator's room
C22_Witness ==
    /\ resp.op = "comment"
    /\ resp.status = 201
    /\ Len(emitted) = 1
    /\ emitted[1].room = UserRoom("F")
    /\ emitted[1].to = {"k1"}
    /\ DOMAIN rooms = {"k1", "k2"}
    /\ rooms["k2"].sent = {Absent, "A"}

----------------------------------------------------------------------------
(* Overlapping requests *)

\* C26: a user has two entries in the acknowledged list or in the views of a
\* notice only after two of the user's requests for that entry overlapped
\* between check and save; requests run one after another leave at most one.
C26_DuplicateOnlyByOverlap ==
    \A id \in DOMAIN notices, kind \in {"ack", "view"}, u \in DOMAIN users :
       Len(EntriesOf(ListOf(notices[id], kind), u)) > 1
       => \E r \in DOMAIN pending :
             /\ pending[r].overlapped
             /\ pending[r].kind = kind
             /\ pending[r].user = u
             /\ pending[r].notice = id

\* Two overlapping acknowledgments of the student left two entries for the
\* student on the first notice
C26_Witness ==
    /\ Len(EntriesOf(notices[1].acknowledged, "S1")) = 2
    /\ \A r \in DOMAIN pending : pending[r].pc = "done"

\* C28: when no request is in progress, the notice of every comment and the
\* relatedNotice of every notification is an existing notice.
C28_NoDanglingReferences ==
    (\A r \in DOMAIN pending : pending[r].pc = "done")
    => /\ \A c \in DOMAIN comments : comments[c].notice \in DOMAIN notices
       /\ \A i \in 1..Len(notifications) :
             notifications[i].relatedNotice \in DOMAIN notices

====
